---- MODULE Spec2Model ----
(***************************************************************************)
(* Model of the ccrxt binding generators:                                  *)
(*   - tools/generate_pyo3_bindings.py : class PyO3BindingGenerator        *)
(*   - tools/generate_build_rs.py      : the build.rs it writes            *)
(* Text is modelled at the level the code inspects it: declaration names   *)
(* and paths are sequences of characters (substring tests, splitting on    *)
(* '/'), type expressions are sequences of lexical tokens written without  *)
(* inner white space (prefix/suffix tests, slicing off "Option<" and ">"). *)
(***************************************************************************)
EXTENDS Integers, Sequences, FiniteSets, TLC

VARIABLES
  tree,            \* the source tree of the current run: root present, entries under it
  outdir_exists,   \* python-bindings/src/generated has been created
  outdir,          \* the files of the output directory: name -> content
  stamp,           \* for each output file, the run that wrote it last
  run,             \* runs started so far
  runLimit,        \* runs the specification allows
  gen,             \* the generator running: "rust" (build.rs), "py", "py_table"
  pc,              \* "idle", "walk", "analyze", "done", "failed"
  pending,         \* entries the directory walk has not yielded yet
  walked,          \* the entries the directory walk has yielded, in order
  venue_bindings,  \* build.rs main: HashMap venue -> bindings
  iterated,        \* build.rs main: the venues in the HashMap's iteration order so far
  bindings,        \* PyO3BindingGenerator: the dict analyze_codebase builds
  log,             \* notices printed (skips, per-venue lines)
  exit,            \* "none", "running", "ok", "error"
  filed,           \* for each analysed file, the venue its declarations went to
  prev,            \* what the previous run left, recorded when a run starts
  arg,             \* the input of a function applied on its own
  res              \* its result

pureVars == <<arg, res>>

vars ==
  <<tree, outdir_exists, outdir, stamp, run, runLimit, gen, pc, pending, walked,
    venue_bindings, iterated, bindings, log, exit, filed, prev, arg, res>>

runVars ==
  <<tree, outdir_exists, outdir, stamp, run, runLimit, gen, pc, pending, walked,
    venue_bindings, iterated, bindings, log, exit, filed, prev>>

(***************************************************************************)
(* Bounds of the model.                                                    *)
(***************************************************************************)
MaxDepth == 2

MaxFiles == 3

MaxRuns == 2

MaxRunFiles == 2

(***************************************************************************)
(* Sequence helpers: what str.find / str.contains / `in` / split compute.  *)
(***************************************************************************)
StartsWith(s, p) == Len(p) <= Len(s) /\ SubSeq(s, 1, Len(p)) = p

EndsWith(s, p) == Len(p) <= Len(s) /\ SubSeq(s, Len(s) - Len(p) + 1, Len(s)) = p

\* positions (1-based) at which p occurs in s
Occurrences(s, p) == {i \in 1..(Len(s) - Len(p) + 1) : SubSeq(s, i, i + Len(p) - 1) = p}

Contains(s, p) == Len(p) = 0 \/ Occurrences(s, p) # {}

Min(S) == CHOOSE x \in S : \A y \in S : x <= y

\* str.find: position of the first occurrence, 0 when there is none
Find(s, p) == IF Occurrences(s, p) = {} THEN 0 ELSE Min(Occurrences(s, p))

(***************************************************************************)
(* Words, as the sequences of characters the substring tests run over.     *)
(***************************************************************************)
w_venues == <<"v", "e", "n", "u", "e", "s">>

w_src == <<"s", "r", "c">>

w_alpha == <<"a", "l", "p", "h", "a">>

w_beta == <<"b", "e", "t", "a">>

w_gamma == <<"g", "a", "m", "m", "a">>

w_unknown == <<"u", "n", "k", "n", "o", "w", "n">>

w_Request == <<"R", "e", "q", "u", "e", "s", "t">>

w_Response == <<"R", "e", "s", "p", "o", "n", "s", "e">>

w_Client == <<"C", "l", "i", "e", "n", "t">>

w_Error == <<"E", "r", "r", "o", "r">>

w_Info == <<"I", "n", "f", "o">>

w_Data == <<"D", "a", "t", "a">>

w_Order == <<"O", "r", "d", "e", "r">>

w_Trade == <<"T", "r", "a", "d", "e">>

w_Account == <<"A", "c", "c", "o", "u", "n", "t">>

w_Balance == <<"B", "a", "l", "a", "n", "c", "e">>

w_Position == <<"P", "o", "s", "i", "t", "i", "o", "n">>

w_Ticker == <<"T", "i", "c", "k", "e", "r">>

w_Kline == <<"K", "l", "i", "n", "e">>

w_Depth == <<"D", "e", "p", "t", "h">>

w_Symbol == <<"S", "y", "m", "b", "o", "l">>

w_Filter == <<"F", "i", "l", "t", "e", "r">>

w_RateLimit == <<"R", "a", "t", "e", "L", "i", "m", "i", "t">>

w_Status == <<"S", "t", "a", "t", "u", "s">>

w_Config == <<"C", "o", "n", "f", "i", "g">>

w_Params == <<"P", "a", "r", "a", "m", "s">>

w_Result == <<"R", "e", "s", "u", "l", "t">>

w_Entry == <<"E", "n", "t", "r", "y">>

w_History == <<"H", "i", "s", "t", "o", "r", "y">>

w_Stats == <<"S", "t", "a", "t", "s">>

w_Builder == <<"B", "u", "i", "l", "d", "e", "r">>

w_Alpha == <<"A", "l", "p", "h", "a">>

w_Beta == <<"B", "e", "t", "a">>

w_Side == <<"S", "i", "d", "e">>

w_Internal == <<"I", "n", "t", "e", "r", "n", "a", "l">>

w_Root == <<"R", "o", "o", "t">>

w_a_rs == <<"a", ".", "r", "s">>

w_b_rs == <<"b", ".", "r", "s">>

w_c_rs == <<"c", ".", "r", "s">>

w_bad_rs == <<"b", "a", "d", ".", "r", "s">>

w_lib_rs == <<"l", "i", "b", ".", "r", "s">>

w_mod_rs == <<"m", "o", "d", ".", "r", "s">>

w_dot_rs == <<".", "r", "s">>

w_venues_src_slash == <<"v", "e", "n", "u", "e", "s", "/", "s", "r", "c", "/">>

(***************************************************************************)
(* Type mapper.  A raw type expression is its token sequence, for example  *)
(* <<"Option","<","Vec","<","u32",">",">">>.                               *)
(***************************************************************************)
Raise == <<"!raise">>

PyObject == <<"PyObject">>

Opt(t) == <<"Option", "<">> \o t \o <<">">>

VecOf(t) == <<"Vec", "<">> \o t \o <<">">>

\* generate_pyo3_bindings.py: type_mapping
type_mapping ==
  [k \in {"String", "u64", "i64", "f64", "bool", "Decimal"} |->
     CASE k = "String" -> <<"String">>
       [] k = "u64" -> <<"u64">>
       [] k = "i64" -> <<"i64">>
       [] k = "f64" -> <<"f64">>
       [] k = "bool" -> <<"bool">>
       [] k = "Decimal" -> <<"String">>]

\* type_mapping[rust_type] in place of .get(rust_type, 'PyObject'): a KeyError for an unknown type
type_mapping_get_KeyError(rust_type) ==
  IF Len(rust_type) = 1 /\ rust_type[1] \in DOMAIN type_mapping
  THEN type_mapping[rust_type[1]]
  ELSE Raise

\* type_mapping.get(rust_type, 'PyObject')
type_mapping_get(rust_type) ==
  IF Len(rust_type) = 1 /\ rust_type[1] \in DOMAIN type_mapping
  THEN type_mapping[rust_type[1]]
  ELSE PyObject

\* f"Option<{x}>" / f"Vec<{x}>": an exception raised while computing x propagates
Wrap(head, x) == IF x = Raise THEN Raise ELSE <<head, "<">> \o x \o <<">">>

\* PyO3BindingGenerator.convert_rust_type_to_python
RECURSIVE convert_rust_type_to_python(_)
convert_rust_type_to_python(rust_type) ==
  IF StartsWith(rust_type, <<"Option", "<">>) /\ EndsWith(rust_type, <<">">>)
  THEN Wrap("Option", convert_rust_type_to_python(SubSeq(rust_type, 3, Len(rust_type) - 1)))
  ELSE IF StartsWith(rust_type, <<"Vec", "<">>) /\ EndsWith(rust_type, <<">">>)
  THEN Wrap("Vec", convert_rust_type_to_python(SubSeq(rust_type, 3, Len(rust_type) - 1)))
  ELSE type_mapping_get(rust_type)

\* syn: which tokens are identifiers (everything but punctuation)
IsIdentTok(t) == t \notin {"<", ">", "::", "&", "(", ")", "[", "]", ","}

\* syn::Type of a token sequence: Type::Path when it starts a path, anything else otherwise
IsTypePath(toks) == Len(toks) > 0 /\ (IsIdentTok(toks[1]) \/ toks[1] = "::")

\* type_path.path.segments.last().ident: the last identifier outside angle brackets
RECURSIVE LastSegmentIdent(_, _, _)
LastSegmentIdent(toks, depth, found) ==
  IF toks = <<>> THEN found
  ELSE LET t == Head(toks) IN
       IF t = "<" THEN LastSegmentIdent(Tail(toks), depth + 1, found)
       ELSE IF t = ">" THEN LastSegmentIdent(Tail(toks), depth - 1, found)
       ELSE IF depth = 0 /\ IsIdentTok(t) THEN LastSegmentIdent(Tail(toks), depth, t)
       ELSE LastSegmentIdent(Tail(toks), depth, found)

\* build.rs: convert_rust_type_to_python_type
convert_rust_type_to_python_type(rust_type) ==
  IF IsTypePath(rust_type)
  THEN LET type_name == LastSegmentIdent(rust_type, 0, "") IN
       CASE type_name = "String" -> <<"String">>
         [] type_name \in {"u64", "u32", "u16", "u8"} -> <<"u64">>
         [] type_name \in {"i64", "i32", "i16", "i8"} -> <<"i64">>
         [] type_name \in {"f64", "f32"} -> <<"f64">>
         [] type_name = "bool" -> <<"bool">>
         [] type_name = "Decimal" -> <<"String">>
         [] type_name = "Option" -> Opt(PyObject)
         [] type_name = "Vec" -> VecOf(PyObject)
         [] OTHER -> PyObject
  ELSE PyObject

(***************************************************************************)
(* Paths.  A path is its character string; '/' separates segments.         *)
(***************************************************************************)
Slash == <<"/">>

RECURSIVE Join(_)
Join(segs) ==
  IF Len(segs) = 0 THEN <<>>
  ELSE IF Len(segs) = 1 THEN segs[1]
  ELSE segs[1] \o Slash \o Join(Tail(segs))

\* pathlib: Path(file_path).parts of a relative path
RECURSIVE PathParts(_)
PathParts(s) ==
  LET i == Find(s, Slash) IN
  IF Len(s) = 0 THEN <<>>
  ELSE IF i = 0 THEN <<s>>
  ELSE IF i = 1 THEN PathParts(SubSeq(s, 2, Len(s)))
  ELSE <<SubSeq(s, 1, i - 1)>> \o PathParts(SubSeq(s, i + 1, Len(s)))

\* list.index / tuple.index: position of the first element equal to x, 0 when there is none
IndexOf(parts, x) ==
  IF \E i \in 1..Len(parts) : parts[i] = x
  THEN Min({i \in 1..Len(parts) : parts[i] = x})
  ELSE 0

\* PyO3BindingGenerator.extract_venue_name
py_extract_venue_name(file_path) ==
  LET path_parts == PathParts(file_path)
      venues_index == IndexOf(path_parts, w_venues)
      src_index == IndexOf(path_parts, w_src)
  IN IF venues_index # 0 /\ src_index # 0 /\ src_index > venues_index
          /\ src_index + 1 <= Len(path_parts)
     THEN path_parts[src_index + 1]
     ELSE w_unknown

\* build.rs: extract_venue_name
extract_venue_name(file_path) ==
  LET venues_idx == Find(file_path, w_venues_src_slash) IN
  IF venues_idx # 0
  THEN LET after_venues == SubSeq(file_path, venues_idx + Len(w_venues_src_slash), Len(file_path))
           slash_idx == Find(after_venues, Slash)
       IN IF slash_idx # 0 THEN SubSeq(after_venues, 1, slash_idx - 1) ELSE w_unknown
  ELSE w_unknown

(***************************************************************************)
(* Declarations of a source file, as the two extractors see them.          *)
(*   struct: name, vis, derive (a #[derive(..)] attribute directly before  *)
(*           `pub struct`), shape ("named" | "tuple"), fields              *)
(*   enum  : name, vis, derive, variants (name and the words of a payload) *)
(*   impl  : name (last segment of the self type), plain (written          *)
(*           `impl Name {`, no generics, no trait), methods                *)
(***************************************************************************)
SeqMap(f(_), s) == [i \in 1..Len(s) |-> f(s[i])]

RECURSIVE SeqFilter(_, _)
SeqFilter(P(_), s) ==
  IF s = <<>> THEN <<>>
  ELSE IF P(Head(s)) THEN <<Head(s)>> \o SeqFilter(P, Tail(s))
  ELSE SeqFilter(P, Tail(s))

RECURSIVE Flatten(_)
Flatten(ss) == IF ss = <<>> THEN <<>> ELSE Head(ss) \o Flatten(Tail(ss))

Range(s) == {s[i] : i \in 1..Len(s)}

\* expose_patterns with one more term, "Side"
expose_patterns_with_Side ==
  <<w_Request, w_Response, w_Client, w_Error, w_Info, w_Data,
    w_Order, w_Trade, w_Account, w_Balance, w_Position, w_Ticker,
    w_Kline, w_Depth, w_Symbol, w_Filter, w_RateLimit, w_Status,
    w_Config, w_Params, w_Result, w_Entry, w_History, w_Stats, w_Side>>

\* build.rs should_expose_struct: expose_patterns
expose_patterns ==
  <<w_Request, w_Response, w_Client, w_Error, w_Info, w_Data,
    w_Order, w_Trade, w_Account, w_Balance, w_Position, w_Ticker,
    w_Kline, w_Depth, w_Symbol, w_Filter, w_RateLimit, w_Status,
    w_Config, w_Params, w_Result, w_Entry, w_History, w_Stats>>

\* PyO3BindingGenerator.should_expose_struct: expose_patterns
py_expose_patterns ==
  <<w_Request, w_Response, w_Client, w_Error, w_Info, w_Data,
    w_Order, w_Trade, w_Account, w_Balance, w_Position, w_Ticker>>

\* build.rs: should_expose_struct
should_expose_struct(s) ==
  IF s.vis # "pub" THEN FALSE
  ELSE \E i \in 1..Len(expose_patterns) : Contains(s.name, expose_patterns[i])

\* build.rs: should_expose_enum
should_expose_enum(e) ==
  IF e.vis # "pub" THEN FALSE
  ELSE ~Contains(e.name, w_Error)

\* build.rs: should_expose_impl
should_expose_impl(i) ==
  IF i.selfPath
  THEN Contains(i.name, w_Client) \/ Contains(i.name, w_Request) \/ Contains(i.name, w_Builder)
  ELSE FALSE

\* PyO3BindingGenerator.should_expose_struct (the fields argument is not read)
py_should_expose_struct(name, fields) ==
  \E i \in 1..Len(py_expose_patterns) : Contains(name, py_expose_patterns[i])

\* PyO3BindingGenerator.should_expose_impl
py_should_expose_impl(name) == Contains(name, w_Client) \/ Contains(name, w_Request)

(***************************************************************************)
(* build.rs: the binding emitters.  A binding is the token stream's        *)
(* content: what is declared, with which constructor, accessors, wrappers. *)
(***************************************************************************)
IsPubField(f) == f.vis = "pub"

RustGetter(f) == [name |-> f.name, type |-> convert_rust_type_to_python_type(f.type)]

\* build.rs: generate_struct_binding
generate_struct_binding(s) ==
  IF s.shape = "named"
  THEN [kind |-> "struct", name |-> s.name,
        constructor |-> IF Contains(s.name, w_Request) THEN "new" ELSE "from_inner",
        getters |-> SeqMap(RustGetter, SeqFilter(IsPubField, s.fields))]
  ELSE [kind |-> "struct", name |-> s.name, constructor |-> "from_inner", getters |-> <<>>]

VariantIdent(v) == v.name

\* build.rs: generate_enum_binding
generate_enum_binding(e) ==
  [kind |-> "enum", name |-> e.name, variants |-> SeqMap(VariantIdent, e.variants)]

IsWrappedMethod(m) == m.vis = "pub" /\ m.name # "new"

MethodWrapper(m) == [name |-> m.name, is_async |-> m.is_async]

EmptyTokens == [kind |-> "empty"]

\* build.rs: generate_impl_binding
generate_impl_binding(i) ==
  IF i.selfPath
  THEN LET methods == SeqMap(MethodWrapper, SeqFilter(IsWrappedMethod, i.methods)) IN
       IF methods # <<>>
       THEN [kind |-> "impl", name |-> i.name, methods |-> methods]
       ELSE EmptyTokens
  ELSE EmptyTokens

\* build.rs process_file: the match arm of one item, as the bindings it pushes
ItemBindings(item) ==
  CASE item.kind = "struct" ->
         IF should_expose_struct(item) THEN <<generate_struct_binding(item)>> ELSE <<>>
    [] item.kind = "enum" ->
         IF should_expose_enum(item) THEN <<generate_enum_binding(item)>> ELSE <<>>
    [] item.kind = "impl" ->
         IF should_expose_impl(item) THEN <<generate_impl_binding(item)>> ELSE <<>>
    [] OTHER -> <<>>

\* build.rs process_file: the loop over ast.items
FileBindings(items) == Flatten(SeqMap(ItemBindings, items))

\* build.rs: generate_venue_module (create_module registers no class)
generate_venue_module(venue_name, tokens) ==
  [venue |-> venue_name, items |-> tokens, registered |-> <<>>]

\* build.rs: generate_main_module
generate_main_module(venue_names) == [mods |-> venue_names]

(***************************************************************************)
(* generate_pyo3_bindings.py: Python values.  A str is a character         *)
(* sequence, a dict its key/value pairs in insertion order.                *)
(***************************************************************************)
k_file == <<"f", "i", "l", "e">>

k_structs == <<"s", "t", "r", "u", "c", "t", "s">>

k_enums == <<"e", "n", "u", "m", "s">>

k_impls == <<"i", "m", "p", "l", "s">>

PyStr(s) == [t |-> "str", v |-> s]

PyList(l) == [t |-> "list", v |-> l]

PyDict(pairs) == [t |-> "dict", v |-> pairs]

EmptyDict == PyDict(<<>>)

\* truth value of a str, list or dict: non-empty
Truthy(x) == Len(x.v) > 0

DictKeys(d) == {d.v[i][1] : i \in 1..Len(d.v)}

\* d[k], for k in d
DictLookup(d, k) == LET i == CHOOSE j \in 1..Len(d.v) : d.v[j][1] = k IN d.v[i][2]

\* d[k] = x: an existing key keeps its place, a new key is appended
DictSet(d, k, x) ==
  IF k \in DictKeys(d)
  THEN PyDict([i \in 1..Len(d.v) |-> IF d.v[i][1] = k THEN <<k, x>> ELSE d.v[i]])
  ELSE PyDict(Append(d.v, <<k, x>>))

\* d.update(other)
RECURSIVE DictUpdatePairs(_, _)
DictUpdatePairs(d, pairs) ==
  IF pairs = <<>> THEN d
  ELSE DictUpdatePairs(DictSet(d, Head(pairs)[1], Head(pairs)[2]), Tail(pairs))

DictUpdate(d, other) == DictUpdatePairs(d, other.v)

PairValue(p) == p[2]

\* d.values()
DictValues(d) == SeqMap(PairValue, d.v)

(***************************************************************************)
(* generate_pyo3_bindings.py: the extractor.  Each regular expression is   *)
(* modelled by what it matches of a declaration.                           *)
(***************************************************************************)
\* field_pattern group 2, [^,\n]+ : the type text up to the first comma
RECURSIVE UpToComma(_)
UpToComma(toks) ==
  IF toks = <<>> \/ Head(toks) = "," THEN <<>> ELSE <<Head(toks)>> \o UpToComma(Tail(toks))

PyField(f) == [name |-> f.name, type |-> UpToComma(f.type)]

\* PyO3BindingGenerator.extract_fields: field_pattern matches `pub name: type`
extract_fields(fields) == SeqMap(PyField, SeqFilter(IsPubField, fields))

\* struct_pattern: #[derive(..)] pub struct Name { non-empty body }
MatchesStructPattern(item) ==
  item.kind = "struct" /\ item.derive /\ item.vis = "pub" /\ item.shape = "named"
    /\ item.fields # <<>>

PyExposedStruct(item) ==
  MatchesStructPattern(item) /\ py_should_expose_struct(item.name, extract_fields(item.fields))

PyStructData(item) == [name |-> item.name, fields |-> extract_fields(item.fields), type |-> "struct"]

\* PyO3BindingGenerator.extract_structs
extract_structs(content) == SeqMap(PyStructData, SeqFilter(PyExposedStruct, content))

\* variant_pattern (\w+)...: every word of the variants text, payload words included
VariantWords(v) == <<v.name>> \o v.payload

\* PyO3BindingGenerator.extract_enum_variants
extract_enum_variants(variants) == Flatten(SeqMap(VariantWords, variants))

\* enum_pattern: #[derive(..)] pub enum Name { non-empty body }
MatchesEnumPattern(item) ==
  item.kind = "enum" /\ item.derive /\ item.vis = "pub" /\ item.variants # <<>>

PyEnumData(item) ==
  [name |-> item.name, variants |-> extract_enum_variants(item.variants), type |-> "enum"]

\* PyO3BindingGenerator.extract_enums
extract_enums(content) == SeqMap(PyEnumData, SeqFilter(MatchesEnumPattern, content))

\* impl_pattern group 2, [^}]+ : the block's text up to its first '}', which is
\* inside the first method's body, so only the first signature is in it
MethodsText(item) == IF item.methods = <<>> THEN <<>> ELSE <<item.methods[1]>>

IsPubAsyncFn(m) == m.vis = "pub" /\ m.is_async /\ m.has_ret

IsPubFn(m) == m.vis = "pub" /\ ~m.is_async /\ m.has_ret

PyAsyncMethod(m) == [name |-> m.name, is_async |-> TRUE]

PySyncMethod(m) == [name |-> m.name, is_async |-> FALSE]

\* PyO3BindingGenerator.extract_methods
extract_methods(methods_text) ==
  SeqMap(PyAsyncMethod, SeqFilter(IsPubAsyncFn, methods_text))
    \o SeqMap(PySyncMethod, SeqFilter(IsPubFn, methods_text))

\* impl_pattern: impl Name { non-empty body }
MatchesImplPattern(item) == item.kind = "impl" /\ item.plain /\ item.methods # <<>>

PyExposedImpl(item) ==
  MatchesImplPattern(item) /\ extract_methods(MethodsText(item)) # <<>>
    /\ py_should_expose_impl(item.name)

PyImplData(item) ==
  [name |-> item.name, methods |-> extract_methods(MethodsText(item)), type |-> "impl"]

\* PyO3BindingGenerator.extract_impls
extract_impls(content) == SeqMap(PyImplData, SeqFilter(PyExposedImpl, content))

\* PyO3BindingGenerator.analyze_file: the dict returned, {} after an exception
analyze_file(file) ==
  IF file.readable
  THEN PyDict(<< <<k_file, PyStr(file.path)>>,
                 <<k_structs, PyList(extract_structs(file.items))>>,
                 <<k_enums, PyList(extract_enums(file.items))>>,
                 <<k_impls, PyList(extract_impls(file.items))>> >>)
  ELSE EmptyDict

(***************************************************************************)
(* generate_pyo3_bindings.py: the emitter.                                 *)
(***************************************************************************)
PyGetter(field) == [name |-> field.name, type |-> convert_rust_type_to_python(field.type)]

\* PyO3BindingGenerator.generate_struct_binding
py_generate_struct_binding(struct_data) ==
  [kind |-> "struct", name |-> struct_data.name, constructor |-> "new",
   getters |-> SeqMap(PyGetter, struct_data.fields)]

\* PyO3BindingGenerator.generate_enum_binding
py_generate_enum_binding(enum_data) ==
  [kind |-> "enum", name |-> enum_data.name, variants |-> enum_data.variants]

\* PyO3BindingGenerator.generate_impl_binding
py_generate_impl_binding(impl_data) ==
  [kind |-> "impl", name |-> impl_data.name, methods |-> impl_data.methods]

DataName(d) == d.name

\* PyO3BindingGenerator.generate_rust_bindings
generate_rust_bindings(venue_name, venue_data) ==
  [venue |-> venue_name,
   items |-> SeqMap(py_generate_struct_binding, venue_data.structs)
               \o SeqMap(py_generate_enum_binding, venue_data.enums)
               \o SeqMap(py_generate_impl_binding, venue_data.impls),
   registered |-> SeqMap(DataName, venue_data.structs) \o SeqMap(DataName, venue_data.enums)]

\* file_data.get(key, [])
GetList(file_data, key) ==
  IF key \in DictKeys(file_data) THEN DictLookup(file_data, key).v ELSE <<>>

VenueKeys(venues) == {venues[i][1] : i \in 1..Len(venues)}

\* venues[venue_name][..].extend(..), the venue entered first when it is new
ExtendVenue(venues, venue_name, file_data) ==
  LET base == IF venue_name \in VenueKeys(venues) THEN venues
              ELSE Append(venues, <<venue_name, [structs |-> <<>>, enums |-> <<>>, impls |-> <<>>]>>)
  IN [i \in 1..Len(base) |->
        IF base[i][1] = venue_name
        THEN <<venue_name,
               [structs |-> base[i][2].structs \o GetList(file_data, k_structs),
                enums |-> base[i][2].enums \o GetList(file_data, k_enums),
                impls |-> base[i][2].impls \o GetList(file_data, k_impls)]>>
        ELSE base[i]]

\* PyO3BindingGenerator.generate_bindings, the loop over bindings.values():
\* the venues grouped, or raised when file_data['file'] fails (a str or a list
\* indexed by a str: TypeError; a dict without the key: KeyError)
RECURSIVE GroupByVenue(_, _)
GroupByVenue(values, venues) ==
  IF values = <<>> THEN [raised |-> FALSE, venues |-> venues]
  ELSE LET file_data == Head(values) IN
       IF ~Truthy(file_data) THEN GroupByVenue(Tail(values), venues)
       ELSE IF file_data.t # "dict" \/ k_file \notin DictKeys(file_data)
       THEN [raised |-> TRUE, venues |-> venues]
       ELSE LET file_path == DictLookup(file_data, k_file).v
                venue_name == py_extract_venue_name(file_path)
            IN GroupByVenue(Tail(values), ExtendVenue(venues, venue_name, file_data))

(***************************************************************************)
(* The source trees the generators are run on: entries drawn from a pool   *)
(* under venues/src.                                                       *)
(***************************************************************************)
n_AlphaOrderRequest == w_Alpha \o w_Order \o w_Request

n_AlphaOrderError == w_Alpha \o w_Order \o w_Error

n_AlphaSide == w_Alpha \o w_Side

n_AlphaKline == w_Alpha \o w_Kline

n_BetaInternal == w_Beta \o w_Internal

n_BetaTicker == w_Beta \o w_Ticker

n_BetaError == w_Beta \o w_Error

n_BetaClient == w_Beta \o w_Client

n_RootConfig == w_Root \o w_Config

n_BetaDepth == w_Beta \o w_Depth

n_BetaSide == w_Beta \o w_Side

n_AlphaOrderData == w_Alpha \o w_Order \o w_Data

Field(n, v, t) == [name |-> n, vis |-> v, type |-> t]

Method(n, v, a) == [name |-> n, vis |-> v, is_async |-> a, has_ret |-> TRUE]

Variant(n, p) == [name |-> n, payload |-> p]

StructItem(n, v, d, sh, fs) ==
  [kind |-> "struct", name |-> n, vis |-> v, derive |-> d, shape |-> sh, fields |-> fs]

EnumItem(n, v, d, vs) == [kind |-> "enum", name |-> n, vis |-> v, derive |-> d, variants |-> vs]

ImplItem(n, ms) == [kind |-> "impl", name |-> n, selfPath |-> TRUE, plain |-> TRUE, methods |-> ms]

\* pub struct AlphaOrderRequest { pub price: f64, pub qty: u32, secret: String }
\* impl AlphaOrderRequest { pub fn new() -> Self {..} pub async fn send(&self) -> .. {..} fn sign(..) }
ItemsA ==
  << StructItem(n_AlphaOrderRequest, "pub", TRUE, "named",
                <<Field("price", "pub", <<"f64">>), Field("qty", "pub", <<"u32">>),
                  Field("secret", "priv", <<"String">>)>>),
     ImplItem(n_AlphaOrderRequest,
              <<Method("new", "pub", FALSE), Method("send", "pub", TRUE),
                Method("sign", "priv", FALSE)>>) >>

\* pub enum AlphaOrderError { NotFound, Timeout }  pub enum AlphaSide { Buy, Sell }
\* pub struct AlphaKline { pub open: Option<u32> }
ItemsB ==
  << EnumItem(n_AlphaOrderError, "pub", TRUE, <<Variant("NotFound", <<>>), Variant("Timeout", <<>>)>>),
     EnumItem(n_AlphaSide, "pub", TRUE, <<Variant("Buy", <<>>), Variant("Sell", <<>>)>>),
     StructItem(n_AlphaKline, "pub", TRUE, "named", <<Field("open", "pub", Opt(<<"u32">>))>>) >>

\* pub struct BetaInternal { pub id: u64 }  struct BetaTicker { pub last: Decimal }
\* enum BetaError { Fatal(String) }  impl BetaClient { pub async fn get_time(&self) -> .. }
ItemsC ==
  << StructItem(n_BetaInternal, "pub", TRUE, "named", <<Field("id", "pub", <<"u64">>)>>),
     StructItem(n_BetaTicker, "priv", TRUE, "named", <<Field("last", "pub", <<"Decimal">>)>>),
     EnumItem(n_BetaError, "priv", TRUE, <<Variant("Fatal", <<"String">>)>>),
     ImplItem(n_BetaClient, <<Method("get_time", "pub", TRUE)>>) >>

\* pub struct BetaDepth { pub bids: Vec<Decimal>  -- the closing brace is missing
ItemsD ==
  << StructItem(n_BetaDepth, "pub", TRUE, "named", <<Field("bids", "pub", VecOf(<<"Decimal">>))>>) >>

\* pub struct RootConfig(pub String);
ItemsRoot == << StructItem(n_RootConfig, "pub", TRUE, "tuple", <<>>) >>

\* pub struct BetaSide { pub id: u64 }
ItemsE == << StructItem(n_BetaSide, "pub", TRUE, "named", <<Field("id", "pub", <<"u64">>)>>) >>

\* pub struct AlphaOrderRequest { pub id: u64 }
\* pub struct AlphaOrderData { pub raw: Option<HashMap<String, u64>>, seq: u64 }
ItemsF ==
  << StructItem(n_AlphaOrderRequest, "pub", TRUE, "named", <<Field("id", "pub", <<"u64">>)>>),
     StructItem(n_AlphaOrderData, "pub", TRUE, "named",
                <<Field("raw", "pub",
                        <<"Option", "<", "HashMap", "<", "String", ",", "u64", ">", ">">>),
                  Field("seq", "priv", <<"u64">>)>>) >>

SrcEntry(segs, k, r, p, its) ==
  [segs |-> segs, path |-> Join(segs), kind |-> k, readable |-> r, parses |-> p, items |-> its]

PoolIds == 1..9

Pool ==
  [id \in PoolIds |->
     CASE id = 1 -> SrcEntry(<<w_venues, w_src, w_alpha, w_a_rs>>, "file", TRUE, TRUE, ItemsA)
       [] id = 2 -> SrcEntry(<<w_venues, w_src, w_alpha, w_b_rs>>, "file", TRUE, TRUE, ItemsB)
       [] id = 3 -> SrcEntry(<<w_venues, w_src, w_alpha, w_bad_rs>>, "file", FALSE, FALSE, <<>>)
       [] id = 4 -> SrcEntry(<<w_venues, w_src, w_beta, w_c_rs>>, "file", TRUE, TRUE, ItemsC)
       [] id = 5 -> SrcEntry(<<w_venues, w_src, w_lib_rs>>, "file", TRUE, TRUE, ItemsRoot)
       [] id = 6 -> SrcEntry(<<w_venues, w_src, w_gamma>>, "lockeddir", FALSE, FALSE, <<>>)
       [] id = 7 -> SrcEntry(<<w_venues, w_src, w_beta, w_b_rs>>, "file", TRUE, FALSE, ItemsD)
       [] id = 8 -> SrcEntry(<<w_venues, w_src, w_beta, w_a_rs>>, "file", TRUE, TRUE, ItemsE)
       [] id = 9 -> SrcEntry(<<w_venues, w_src, w_alpha, w_c_rs>>, "file", TRUE, TRUE, ItemsF)]

NoTree == [root |-> FALSE, entries |-> {}]

Trees ==
  {NoTree} \cup {[root |-> TRUE, entries |-> S] : S \in {X \in SUBSET PoolIds : Cardinality(X) <= MaxFiles}}

\* the trees of a run: smaller ones where several runs follow each other
FileLimit(limit) == IF limit > 1 THEN MaxRunFiles ELSE MaxFiles

\* the directory an entry lies in
DirOf(e) == SubSeq(Pool[e].segs, 1, Len(Pool[e].segs) - 1)

CommonPrefixLen(a, b) ==
  LET n == IF Len(a) <= Len(b) THEN Len(a) ELSE Len(b)
      agree == {k \in 0..n : SubSeq(a, 1, k) = SubSeq(b, 1, k)}
  IN CHOOSE k \in agree : \A j \in agree : j <= k

\* fs::read_dir recursion: a directory entered is finished before its parent goes on;
\* the order of a directory's entries is the platform's
WalkOK(e, todo, done) ==
  IF done = <<>> THEN TRUE
  ELSE LET before == done[Len(done)] IN
       \A g \in todo :
         CommonPrefixLen(DirOf(before), DirOf(g)) <= CommonPrefixLen(DirOf(before), DirOf(e))

\* Path.rglob: the same, and a directory's own files come before its subdirectories'
PyWalkOK(e, todo, done) ==
  /\ WalkOK(e, todo, done)
  /\ \A g \in todo : ~(Len(DirOf(g)) < Len(DirOf(e)) /\ StartsWith(DirOf(e), DirOf(g)))

(***************************************************************************)
(* Inputs of the type mapper: well-formed type expressions up to MaxDepth  *)
(* wrappers deep.                                                          *)
(***************************************************************************)
ScalarIdents ==
  {"String", "u8", "u16", "u32", "u64", "i8", "i16", "i32", "i64", "f32", "f64",
   "bool", "Decimal"}

AtomTypes ==
  {<<k>> : k \in ScalarIdents}
    \cup {<<"Foo">>, <<"&", "str">>, <<"rust_decimal", "::", "Decimal">>,
          <<"Box", "<", "u8", ">">>}

RECURSIVE TypesUpTo(_)
TypesUpTo(d) ==
  IF d = 0 THEN AtomTypes
  ELSE LET T == TypesUpTo(d - 1) IN
       AtomTypes \cup {Opt(t) : t \in T} \cup {VecOf(t) : t \in T}

TypeExprs == TypesUpTo(MaxDepth)

(***************************************************************************)
(* State.                                                                  *)
(***************************************************************************)
EmptyMap == [k \in {} |-> 0]

MapPut(m, k, x) == (k :> x) @@ m

NoArg == [kind |-> "none"]

NoRes == [fn |-> "none"]

NoPrev == [gen |-> "none"]

InitRun ==
  /\ tree = NoTree
  /\ outdir_exists = FALSE
  /\ outdir = EmptyMap
  /\ stamp = EmptyMap
  /\ run = 0
  /\ gen = "none"
  /\ pc = "idle"
  /\ pending = {}
  /\ walked = <<>>
  /\ venue_bindings = EmptyMap
  /\ iterated = <<>>
  /\ bindings = EmptyDict
  /\ log = <<>>
  /\ exit = "none"
  /\ filed = EmptyMap
  /\ prev = NoPrev

Init ==
  /\ InitRun
  /\ runLimit = 1
  /\ arg = NoArg
  /\ res = NoRes

InitRuns ==
  /\ InitRun
  /\ runLimit = MaxRuns
  /\ arg = NoArg
  /\ res = NoRes

CanStart == pc \in {"idle", "done", "failed"} /\ run < runLimit

\* what a starting process finds and resets; the output directory's files stay
Begin(t, g) ==
  /\ CanStart
  /\ Cardinality(t.entries) <= FileLimit(runLimit)
  /\ run' = run + 1
  /\ gen' = g
  /\ tree' = t
  /\ prev' = [gen |-> gen, tree |-> tree, walked |-> walked, outdir |-> outdir, exit |-> exit]
  /\ outdir_exists' = TRUE
  /\ venue_bindings' = EmptyMap
  /\ iterated' = <<>>
  /\ bindings' = EmptyDict
  /\ log' = <<>>
  /\ filed' = EmptyMap
  /\ walked' = <<>>
  /\ UNCHANGED <<outdir, stamp, runLimit, pureVars>>

(***************************************************************************)
(* build.rs: main, collect_bindings, process_file.                         *)
(***************************************************************************)
\* main up to the walk: create_dir_all, then read_dir(src_dir) succeeds
RustMain(t) ==
  /\ t.root
  /\ Begin(t, "rust")
  /\ pending' = t.entries
  /\ pc' = "walk"
  /\ exit' = "running"

\* main: read_dir(src_dir).unwrap() panics when the root is missing
RustMainMissingRoot ==
  /\ Begin(NoTree, "rust")
  /\ pending' = {}
  /\ pc' = "failed"
  /\ exit' = "error"

\* collect_bindings: read_dir(&path).unwrap() on a subdirectory that cannot be read
RustReadDirPanics(e) ==
  /\ gen = "rust" /\ pc = "walk"
  /\ e \in pending /\ WalkOK(e, pending, walked)
  /\ Pool[e].kind = "lockeddir"
  /\ pc' = "failed"
  /\ exit' = "error"
  /\ UNCHANGED <<tree, outdir_exists, outdir, stamp, run, runLimit, gen, pending, walked,
                 venue_bindings, iterated, bindings, log, filed, prev, pureVars>>

\* process_file as the map it leaves: unread and unparsed files change nothing
ProcessFile(file, vb) ==
  IF ~file.readable \/ ~file.parses THEN vb
  ELSE LET venue_name == extract_venue_name(file.path)
           old == IF venue_name \in DOMAIN vb THEN vb[venue_name] ELSE <<>>
       IN MapPut(vb, venue_name, old \o FileBindings(file.items))

\* collect_bindings: one .rs entry, process_file
RustProcessFile(e) ==
  /\ gen = "rust" /\ pc = "walk"
  /\ e \in pending /\ WalkOK(e, pending, walked)
  /\ Pool[e].kind = "file"
  /\ venue_bindings' = ProcessFile(Pool[e], venue_bindings)
  /\ filed' = IF Pool[e].readable /\ Pool[e].parses
              THEN MapPut(filed, e, extract_venue_name(Pool[e].path))
              ELSE filed
  /\ pending' = pending \ {e}
  /\ walked' = Append(walked, e)
  /\ UNCHANGED <<tree, outdir_exists, outdir, stamp, run, runLimit, gen, pc,
                 iterated, bindings, log, exit, prev, pureVars>>

\* main: one turn of the loop over venue_bindings.iter(), in the map's order
RustWriteVenue(venue_name) ==
  /\ gen = "rust" /\ pc = "walk" /\ pending = {}
  /\ venue_name \in DOMAIN venue_bindings \ Range(iterated)
  /\ iterated' = Append(iterated, venue_name)
  /\ IF venue_bindings[venue_name] # <<>>
     THEN /\ outdir' = MapPut(outdir, venue_name \o w_dot_rs,
                              generate_venue_module(venue_name, venue_bindings[venue_name]))
          /\ stamp' = MapPut(stamp, venue_name \o w_dot_rs, run)
          /\ log' = Append(log, [kind |-> "generated", venue |-> venue_name])
     ELSE UNCHANGED <<outdir, stamp, log>>
  /\ UNCHANGED <<tree, outdir_exists, run, runLimit, gen, pc, pending, walked,
                 venue_bindings, bindings, exit, filed, prev, pureVars>>

\* main: generate_main_module over venue_bindings.keys(), then the normal exit
RustWriteIndex ==
  /\ gen = "rust" /\ pc = "walk" /\ pending = {}
  /\ Range(iterated) = DOMAIN venue_bindings
  /\ outdir' = MapPut(outdir, w_mod_rs, generate_main_module(iterated))
  /\ stamp' = MapPut(stamp, w_mod_rs, run)
  /\ pc' = "done"
  /\ exit' = "ok"
  /\ UNCHANGED <<tree, outdir_exists, run, runLimit, gen, pending, walked,
                 venue_bindings, iterated, bindings, log, filed, prev, pureVars>>

(***************************************************************************)
(* generate_pyo3_bindings.py.  gen = "py" is the script's main(): the dict  *)
(* analyze_codebase returns goes to generate_bindings.  gen = "py_table"   *)
(* is a caller of the same class that hands generate_bindings the table    *)
(* its loop reads, one analyze_file record per file under the file's path. *)
(***************************************************************************)
\* rglob yields the files it can reach; of a missing root, nothing
RustFiles(t) == IF t.root THEN {e \in t.entries : Pool[e].kind = "file"} ELSE {}

\* __init__ (mkdir) and analyze_codebase up to its loop
PyMain(t) ==
  /\ Begin(t, "py")
  /\ pending' = RustFiles(t)
  /\ pc' = "analyze"
  /\ exit' = "running"

\* __init__ by a caller that keeps analyze_file's records apart
PyTableMain(t) ==
  /\ Begin(t, "py_table")
  /\ pending' = RustFiles(t)
  /\ pc' = "analyze"
  /\ exit' = "running"

SkipNotice(e) == [kind |-> "error_processing", file |-> Pool[e].path]

\* analyze_codebase: one turn of the loop, bindings.update(self.analyze_file(file))
PyAnalyzeFile(e) ==
  /\ gen = "py" /\ pc = "analyze"
  /\ e \in pending /\ PyWalkOK(e, pending, walked)
  /\ bindings' = DictUpdate(bindings, analyze_file(Pool[e]))
  /\ log' = IF Pool[e].readable THEN log ELSE Append(log, SkipNotice(e))
  /\ pending' = pending \ {e}
  /\ walked' = Append(walked, e)
  /\ UNCHANGED <<tree, outdir_exists, outdir, stamp, run, runLimit, gen, pc,
                 venue_bindings, iterated, exit, filed, prev, pureVars>>

\* the caller's table: table[str(file)] = self.analyze_file(file)
PyTableAnalyzeFile(e) ==
  /\ gen = "py_table" /\ pc = "analyze"
  /\ e \in pending /\ PyWalkOK(e, pending, walked)
  /\ bindings' = DictSet(bindings, Pool[e].path, analyze_file(Pool[e]))
  /\ log' = IF Pool[e].readable THEN log ELSE Append(log, SkipNotice(e))
  /\ pending' = pending \ {e}
  /\ walked' = Append(walked, e)
  /\ UNCHANGED <<tree, outdir_exists, outdir, stamp, run, runLimit, gen, pc,
                 venue_bindings, iterated, exit, filed, prev, pureVars>>

\* generate_venue_bindings for each of venues.items(), as the files written
RECURSIVE WriteVenues(_, _)
WriteVenues(venues, files) ==
  IF venues = <<>> THEN files
  ELSE WriteVenues(Tail(venues),
                   MapPut(files, Head(venues)[1] \o w_dot_rs,
                          generate_rust_bindings(Head(venues)[1], Head(venues)[2])))

VenueNotice(v) == [kind |-> "generated", venue |-> v[1]]

\* the venue each file's record was grouped under
FiledBy(t) ==
  [e \in {x \in RustFiles(t) : Pool[x].readable} |-> py_extract_venue_name(Pool[e].path)]

\* generate_bindings returns: every venue's file written
PyGenerateBindings ==
  /\ gen \in {"py", "py_table"} /\ pc = "analyze" /\ pending = {}
  /\ LET g == GroupByVenue(DictValues(bindings), <<>>)
         written == WriteVenues(g.venues, EmptyMap)
     IN /\ ~g.raised
        /\ outdir' = written @@ outdir
        /\ stamp' = [f \in DOMAIN written |-> run] @@ stamp
        /\ log' = log \o SeqMap(VenueNotice, g.venues)
        /\ filed' = IF g.venues = <<>> THEN filed ELSE FiledBy(tree)
  /\ pc' = "done"
  /\ exit' = "ok"
  /\ UNCHANGED <<tree, outdir_exists, run, runLimit, gen, pending, walked,
                 venue_bindings, iterated, bindings, prev, pureVars>>

\* generate_bindings raises in its loop, before anything is written
PyGenerateBindingsRaises ==
  /\ gen \in {"py", "py_table"} /\ pc = "analyze" /\ pending = {}
  /\ GroupByVenue(DictValues(bindings), <<>>).raised
  /\ pc' = "failed"
  /\ exit' = "error"
  /\ UNCHANGED <<tree, outdir_exists, outdir, stamp, run, runLimit, gen, pending, walked,
                 venue_bindings, iterated, bindings, log, filed, prev, pureVars>>

Next ==
  \/ \E t \in Trees : RustMain(t)
  \/ RustMainMissingRoot
  \/ \E e \in PoolIds : RustReadDirPanics(e)
  \/ \E e \in PoolIds : RustProcessFile(e)
  \/ \E v \in DOMAIN venue_bindings : RustWriteVenue(v)
  \/ RustWriteIndex
  \/ \E t \in Trees : PyMain(t)
  \/ \E t \in Trees : PyTableMain(t)
  \/ \E e \in PoolIds : PyAnalyzeFile(e)
  \/ \E e \in PoolIds : PyTableAnalyzeFile(e)
  \/ PyGenerateBindings
  \/ PyGenerateBindingsRaises

Spec == Init /\ [][Next]_vars

SpecRuns == InitRuns /\ [][Next]_vars

InitFn ==
  /\ InitRun
  /\ runLimit = 0
  /\ arg \in [kind : {"type"}, text : TypeExprs]
  /\ res = NoRes

\* one call of PyO3BindingGenerator.convert_rust_type_to_python
PyConvertType ==
  /\ arg.kind = "type"
  /\ res = NoRes
  /\ res' = [fn |-> "py_convert", out |-> convert_rust_type_to_python(arg.text)]
  /\ UNCHANGED <<arg, runVars>>

\* one call of build.rs convert_rust_type_to_python_type
RustConvertType ==
  /\ arg.kind = "type"
  /\ res = NoRes
  /\ res' = [fn |-> "rust_convert", out |-> convert_rust_type_to_python_type(arg.text)]
  /\ UNCHANGED <<arg, runVars>>

NextFn == PyConvertType \/ RustConvertType

SpecFn == InitFn /\ [][NextFn]_vars

(***************************************************************************)
(* What the properties below read off the state.                           *)
(***************************************************************************)
\* the generators as their main functions run them
Programs == {"rust", "py"}

RunEnded == pc \in {"done", "failed"}

\* the namespace modules of the output directory
VenueFiles == DOMAIN outdir \ {w_mod_rs}

\* the files the current run wrote
WrittenNow == {f \in DOMAIN outdir : stamp[f] = run}

\* the names declared in a source file
DeclNames(e) == {Pool[e].items[i].name : i \in 1..Len(Pool[e].items)}

\* the declarations of a kind bound in a namespace module
BoundNames(content, kind) ==
  {content.items[i].name : i \in {j \in 1..Len(content.items) : content.items[j].kind = kind}}

\* the first path segment after the segments venues, src; "unknown" without them
ClaimedNamespace(path) ==
  LET parts == PathParts(path)
      at == {i \in 1..Len(parts) : i + 2 <= Len(parts) /\ parts[i] = w_venues /\ parts[i + 1] = w_src}
  IN IF at = {} THEN w_unknown ELSE parts[Min(at) + 2]

\* C1: every analysed file's declarations go to one namespace, the first path
\* segment after venues/src ("unknown" without the marker), and are emitted
\* in that namespace's module only
C1_NamespaceFromPath ==
  \A e \in DOMAIN filed :
    /\ filed[e] = ClaimedNamespace(Pool[e].path)
    /\ \A f \in VenueFiles \cap WrittenNow :
         (\E i \in 1..Len(outdir[f].items) :
             outdir[f].items[i].kind # "empty" /\ outdir[f].items[i].name \in DeclNames(e))
           => outdir[f].venue = ClaimedNamespace(Pool[e].path)

\* the enumerations of the pool whose name contains "Error"
ErrorEnumNames ==
  UNION {{Pool[e].items[i].name :
            i \in {j \in 1..Len(Pool[e].items) :
                     Pool[e].items[j].kind = "enum" /\ Contains(Pool[e].items[j].name, w_Error)}} :
         e \in PoolIds}

\* C2: no namespace module holds an enum binding or a registration line for an
\* enumeration whose name contains "Error"
C2_NoErrorEnumEmitted ==
  \A f \in VenueFiles :
    /\ BoundNames(outdir[f], "enum") \cap ErrorEnumNames = {}
    /\ Range(outdir[f].registered) \cap ErrorEnumNames = {}

\* the allow-list of the exposure rule for records
AllowList ==
  {w_Request, w_Response, w_Client, w_Error, w_Info, w_Data, w_Order, w_Trade, w_Account,
   w_Balance, w_Position, w_Ticker, w_Kline, w_Depth, w_Symbol, w_Filter, w_RateLimit,
   w_Status, w_Config, w_Params, w_Result, w_Entry, w_History, w_Stats}

\* the records of an analysed file
Records(e) == {Pool[e].items[i] : i \in {j \in 1..Len(Pool[e].items) : Pool[e].items[j].kind = "struct"}}

\* a wrapped type of that name is in a module the current run wrote
EmittedAsWrappedType(name) ==
  \E f \in VenueFiles \cap WrittenNow : name \in BoundNames(outdir[f], "struct")

\* C3: after a completed run, a record of an analysed file is emitted as a wrapped
\* type iff it is public and its name contains a term of the allow-list
C3_RecordExposure ==
  (pc = "done" /\ exit = "ok") =>
    \A e \in DOMAIN filed : \A s \in Records(e) :
      EmittedAsWrappedType(s.name) <=> (s.vis = "pub" /\ \E term \in AllowList : Contains(s.name, term))

IsValidFile(e) == Pool[e].kind = "file" /\ Pool[e].readable /\ Pool[e].parses

IsUnreadableFile(e) == Pool[e].kind = "file" /\ ~Pool[e].readable

\* two valid files and one unreadable file, all in one directory
UnreadableBesideTwoValid(t) ==
  /\ t.root
  /\ Cardinality({e \in t.entries : IsValidFile(e)}) = 2
  /\ Cardinality({e \in t.entries : IsUnreadableFile(e)}) = 1
  /\ Cardinality(t.entries) = 3
  /\ \A a, b \in t.entries : DirOf(a) = DirOf(b)

SkipNotices == SeqFilter(LAMBDA n : n.kind = "error_processing", log)

\* a module written by this run binds a declaration of file e
BindsFile(e) ==
  \E f \in VenueFiles \cap WrittenNow : \E i \in 1..Len(outdir[f].items) :
    outdir[f].items[i].kind # "empty" /\ outdir[f].items[i].name \in DeclNames(e)

\* C4: with an unreadable file beside two valid files of one namespace, the run
\* ends normally, the output binds declarations of both valid files, and exactly
\* one skip notice is logged
C4_UnreadableFileSkipped ==
  (RunEnded /\ gen \in Programs /\ UnreadableBesideTwoValid(tree)) =>
    /\ exit = "ok"
    /\ \A e \in tree.entries : IsValidFile(e) => BindsFile(e)
    /\ Len(SkipNotices) = 1

\* C5: a run over a missing root ends in an error and writes nothing, and a run
\* ends in an error only when the root is missing
C5_OnlyMissingRootFails ==
  (RunEnded /\ gen \in Programs) =>
    /\ ~tree.root => (exit = "error" /\ WrittenNow = {})
    /\ exit = "error" => ~tree.root

\* C6: a second run of the same generator on the same tree, the walk yielding
\* the files in the same order, leaves every output file as the first run left it
C6_Idempotent ==
  (pc = "done" /\ run = 2 /\ gen \in Programs /\ prev.gen = gen /\ prev.exit = "ok"
     /\ prev.tree = tree /\ prev.walked = walked)
    => outdir = prev.outdir

\* C7: after a completed run, every file of the output directory was written by
\* that run, the runs before it being runs of the same generator
C7_NoStaleOutput ==
  (pc = "done" /\ exit = "ok" /\ gen \in Programs /\ (run > 1 => prev.gen = gen))
    => \A f \in DOMAIN outdir : stamp[f] = run

(***************************************************************************)
(* Properties of the type mapper, read off one call (arg, res).            *)
(***************************************************************************)
Mapped == res.fn \in {"py_convert", "rust_convert"}

ScalarOut == {<<"String">>, <<"u64">>, <<"i64">>, <<"f64">>, <<"bool">>}

\* a binding-layer type: a scalar, text, the opaque type, or an Option/Vec of one
RECURSIVE IsMappedType(_)
IsMappedType(t) ==
  \/ t \in ScalarOut \cup {PyObject}
  \/ /\ Len(t) >= 4
     /\ SubSeq(t, 1, 2) \in {<<"Option", "<">>, <<"Vec", "<">>}
     /\ t[Len(t)] = ">"
     /\ IsMappedType(SubSeq(t, 3, Len(t) - 1))

\* the type's own name: of a path its last segment, nothing of any other type
TypeName(t) == IF IsTypePath(t) THEN LastSegmentIdent(t, 0, "") ELSE ""

\* one of the mapping rules 1 to 8 applies to the type
SomeRuleMatches(t) == TypeName(t) \in ScalarIdents \cup {"Option", "Vec"}

\* C8: every call of the type mapper returns a binding-layer type and raises
\* nothing, and returns the opaque type PyObject when no mapping rule matches
C8_MapTypeTotal ==
  Mapped =>
    /\ res.out # Raise
    /\ IsMappedType(res.out)
    /\ ~SomeRuleMatches(arg.text) => res.out = PyObject

\* C8 witness: the Python mapper has resolved a wrapper nested two deep around a
\* type no rule matches
C8_Witness ==
  /\ res.fn = "py_convert"
  /\ arg.text = Opt(VecOf(<<"Foo">>))
  /\ res.out = Opt(VecOf(PyObject))

\* the mapper that produced res, applied to another type
SameMapper(t) ==
  IF res.fn = "py_convert" THEN convert_rust_type_to_python(t)
  ELSE convert_rust_type_to_python_type(t)

\* C9: Option<T> maps to Option<map_type(T)> and Vec<T> to Vec<map_type(T)>
C9_WrappersMapInner ==
  Mapped =>
    \A T \in TypeExprs :
      /\ arg.text = Opt(T) => res.out = Opt(SameMapper(T))
      /\ arg.text = VecOf(T) => res.out = VecOf(SameMapper(T))

\* C10: u8..u64 map to u64, i8..i64 to i64, f32 and f64 to f64
C10_ScalarWidening ==
  Mapped =>
    /\ arg.text \in {<<"u8">>, <<"u16">>, <<"u32">>, <<"u64">>} => res.out = <<"u64">>
    /\ arg.text \in {<<"i8">>, <<"i16">>, <<"i32">>, <<"i64">>} => res.out = <<"i64">>
    /\ arg.text \in {<<"f32">>, <<"f64">>} => res.out = <<"f64">>

(***************************************************************************)
(* Properties of the method wrappers, the index and the registration.      *)
(***************************************************************************)
\* the method collections of an analysed file
Impls(e) == {Pool[e].items[i] : i \in {j \in 1..Len(Pool[e].items) : Pool[e].items[j].kind = "impl"}}

\* a module the current run wrote holds, in a wrapper block of that owner, a
\* wrapper of that name
WrapperEmitted(owner, method_name) ==
  \E f \in VenueFiles \cap WrittenNow : \E k \in 1..Len(outdir[f].items) :
    /\ outdir[f].items[k].kind = "impl"
    /\ outdir[f].items[k].name = owner
    /\ \E j \in 1..Len(outdir[f].items[k].methods) :
         outdir[f].items[k].methods[j].name = method_name

OwnerExposed(name) ==
  Contains(name, w_Client) \/ Contains(name, w_Request) \/ Contains(name, w_Builder)

\* C11: after a completed run, a method of an analysed file's collection has a
\* wrapper iff its owner's name contains Client, Request or Builder, it is
\* public, and it is not named new
C11_MethodWrapperRule ==
  (pc = "done" /\ exit = "ok") =>
    \A e \in DOMAIN filed : \A i \in Impls(e) : \A k \in 1..Len(i.methods) :
      WrapperEmitted(i.name, i.methods[k].name)
        <=> (OwnerExposed(i.name) /\ i.methods[k].vis = "pub" /\ i.methods[k].name # "new")

\* the submodules the index written by the current run declares
DeclaredSubmodules ==
  IF w_mod_rs \in WrittenNow THEN Range(outdir[w_mod_rs].mods) ELSE {}

\* the namespaces whose module file the current run wrote
WrittenNamespaces == {outdir[f].venue : f \in VenueFiles \cap WrittenNow}

\* C12: after a completed run, the index declares a submodule for exactly the
\* namespaces whose module file was written
C12_IndexMatchesFiles ==
  (pc = "done" /\ exit = "ok") => DeclaredSubmodules = WrittenNamespaces

\* the wrapped types a namespace module declares: its records and enumerations
WrappedTypes(content) == BoundNames(content, "struct") \cup BoundNames(content, "enum")

\* C13: the registration function of every namespace module lists exactly the
\* wrapped types the module declares
C13_RegistrationListsWrappedTypes ==
  \A f \in VenueFiles \cap WrittenNow :
    Range(outdir[f].registered) = WrappedTypes(outdir[f])

\* the positions in a module of the wrapped types of a name
WrappedAt(content, name) ==
  {i \in 1..Len(content.items) :
     content.items[i].kind \in {"struct", "enum"} /\ content.items[i].name = name}

\* the places in the walk of the analysed files that declare a record of a name
WalkedDeclaring(name) ==
  {k \in 1..Len(walked) :
     walked[k] \in DOMAIN filed /\ \E s \in Records(walked[k]) : s.name = name}

\* the public fields of the record of that name in the file walked last among those
LastWrittenFields(name) ==
  LET last == CHOOSE k \in WalkedDeclaring(name) : \A j \in WalkedDeclaring(name) : j <= k
      s == CHOOSE r \in Records(walked[last]) : r.name = name
  IN {s.fields[i].name : i \in {j \in 1..Len(s.fields) : s.fields[j].vis = "pub"}}

\* C14: a namespace module holds at most one wrapped type of a name, and of a
\* record declared in several files it holds the one of the file written last
C14_UniqueNamesLastWins ==
  \A f \in VenueFiles \cap WrittenNow : \A i \in 1..Len(outdir[f].items) :
    LET it == outdir[f].items[i] IN
    it.kind \in {"struct", "enum"} =>
      /\ WrappedAt(outdir[f], it.name) = {i}
      /\ (it.kind = "struct" /\ WalkedDeclaring(it.name) # {}) =>
           {it.getters[j].name : j \in 1..Len(it.getters)} = LastWrittenFields(it.name)

\* C15: every wrapped record has the zero-argument constructor new when its
\* name ends in Request, and the factory from_inner otherwise
C15_ConstructorBySuffix ==
  \A f \in VenueFiles \cap WrittenNow : \A i \in 1..Len(outdir[f].items) :
    outdir[f].items[i].kind = "struct" =>
      outdir[f].items[i].constructor =
        IF EndsWith(outdir[f].items[i].name, w_Request) THEN "new" ELSE "from_inner"

(***************************************************************************)
(* should_expose_struct as a function of a record's name and visibility:   *)
(* each call is made on a name and on the name with a suffix added.        *)
(***************************************************************************)
NameStems ==
  {<<"R", "e", "q">>, <<"K", "l", "i">>, <<"S", "t", "a">>, <<"T", "i", "c", "k">>,
   w_Alpha, w_Side, w_Internal, w_Request, n_BetaTicker}

NameSuffixes ==
  {<<"u", "e", "s", "t">>, <<"n", "e">>, <<"t", "u", "s">>, <<"e", "r">>, <<"V", "2">>,
   w_Side, w_Order \o <<"V", "2">>, w_Request, w_Stats}

NamedRecord(n, v) == StructItem(n, v, TRUE, "named", <<>>)

InitExpose ==
  /\ InitRun
  /\ runLimit = 0
  /\ arg \in [kind : {"name"}, name : NameStems, suffix : NameSuffixes, vis : {"pub", "priv"}]
  /\ res = NoRes

\* build.rs should_expose_struct, called on the name and on the name with the suffix
RustShouldExpose ==
  /\ arg.kind = "name"
  /\ res = NoRes
  /\ res' = [fn |-> "rust_expose",
             before |-> should_expose_struct(NamedRecord(arg.name, arg.vis)),
             after |-> should_expose_struct(NamedRecord(arg.name \o arg.suffix, arg.vis))]
  /\ UNCHANGED <<arg, runVars>>

\* PyO3BindingGenerator.should_expose_struct, the same two calls
PyShouldExpose ==
  /\ arg.kind = "name"
  /\ res = NoRes
  /\ res' = [fn |-> "py_expose",
             before |-> py_should_expose_struct(arg.name, <<>>),
             after |-> py_should_expose_struct(arg.name \o arg.suffix, <<>>)]
  /\ UNCHANGED <<arg, runVars>>

NextExpose == RustShouldExpose \/ PyShouldExpose

SpecExpose == InitExpose /\ [][NextExpose]_vars

Exposed == res.fn \in {"rust_expose", "py_expose"}

\* C17 as claimed: a name on which should_expose is false stays false with a
\* suffix added that is not itself a term of the allow-list
C17_SuffixKeepsFalse ==
  (Exposed /\ ~res.before /\ arg.suffix \notin AllowList) => ~res.after

\* an allow-listed term occurs in name + suffix at a place that reaches into the suffix
TermReachesSuffix(name, suffix) ==
  \E term \in AllowList : \E at \in Occurrences(name \o suffix, term) :
    at + Len(term) - 1 > Len(name)

\* C17 amended: a name on which should_expose is false stays false with a suffix
\* added, when no allow-listed term occurs in the longer name at a place that
\* reaches into the suffix
C17_SuffixWithoutTermKeepsFalse ==
  (Exposed /\ ~res.before /\ ~TermReachesSuffix(arg.name, arg.suffix)) => ~res.after

\* C17 witness: build.rs has refused public Kli and, with V2 added, KliV2
C17_Witness ==
  /\ res.fn = "rust_expose"
  /\ arg.name = <<"K", "l", "i">> /\ arg.suffix = <<"V", "2">> /\ arg.vis = "pub"
  /\ ~res.before /\ ~res.after
  /\ ~TermReachesSuffix(arg.name, arg.suffix)

\* map_type of the generator that is running
MapType(t) ==
  IF gen = "rust" THEN convert_rust_type_to_python_type(t) ELSE convert_rust_type_to_python(t)

\* one accessor per public named field of a record, typed map_type(field type)
PublicFieldAccessors(s) ==
  {[name |-> s.fields[i].name, type |-> MapType(s.fields[i].type)] :
     i \in {j \in 1..Len(s.fields) : s.fields[j].vis = "pub"}}

\* the records of the analysed files that have a name
RecordsNamed(name) == {s \in UNION {Records(e) : e \in DOMAIN filed} : s.name = name}

\* C18: the accessors of every wrapped record are exactly those of the public
\* named fields of a record of its name, each typed map_type(field type); no
\* private field has one
C18_AccessorsArePublicFields ==
  \A f \in VenueFiles \cap WrittenNow : \A i \in 1..Len(outdir[f].items) :
    (outdir[f].items[i].kind = "struct" /\ RecordsNamed(outdir[f].items[i].name) # {}) =>
      \E s \in RecordsNamed(outdir[f].items[i].name) :
        Range(outdir[f].items[i].getters) = PublicFieldAccessors(s)

\* the files analyze_codebase has analysed successfully so far
AnalysedFiles == {walked[k] : k \in {j \in 1..Len(walked) : Pool[walked[j]].readable}}

\* C19: while analyze_codebase scans and afterwards, its table holds for each
\* file analysed so far that file's record (file, structs, enums, impls) and
\* nothing else, and generate_bindings then ends without failing
C19_TableAccumulates ==
  gen = "py" =>
    /\ \A e \in AnalysedFiles : analyze_file(Pool[e]) \in Range(DictValues(bindings))
    /\ Len(bindings.v) = Cardinality(AnalysedFiles)
    /\ RunEnded => exit = "ok"

\* C20: a namespace module that holds a method-wrapper block for an owner also
\* holds a wrapped type of the owner's name
C20_OwnerIntegrity ==
  \A f \in VenueFiles \cap WrittenNow : \A i \in 1..Len(outdir[f].items) :
    outdir[f].items[i].kind = "impl" =>
      outdir[f].items[i].name \in BoundNames(outdir[f], "struct")

====
